---------------------------- MODULE Spec2Model ----------------------------
(***************************************************************************)
(* Model of the event-hub backend: the HTTP handlers for products,         *)
(* warehouse (stock) and categories and the three document collections     *)
(* they read and write (backend/internal/handlers).                        *)
(*                                                                         *)
(* A string is a sequence of one-character strings; the canonical text of  *)
(* UUID n is the single token ToString(n).  A collection is the sequence   *)
(* of its documents in insertion order.                                    *)
(***************************************************************************)
EXTENDS Integers, Sequences, FiniteSets, TLC

(***************************************************************************)
(* Bounds of the model.                                                    *)
(***************************************************************************)
\* size of the UUID universe: identifiers clients can name and uuid.New() can draw
NumUUID == 2
\* DeleteStock requests that may be between their two store steps at once
MaxPending == 1
\* longest payload array of one CreateCategories request
MaxBulk == 2

UUIDs == 1..NumUUID

(***************************************************************************)
(* HTTP status codes of the fiber package.                                 *)
(***************************************************************************)
StatusOK == 200
StatusCreated == 201
StatusBadRequest == 400
StatusNotFound == 404
StatusInternalServerError == 500
\* resp.status while a DeleteStock request is between its two store steps
InFlight == 0

(***************************************************************************)
(* Strings, strings.TrimSpace and uuid.Parse.                              *)
(***************************************************************************)
IsSpace(c) == c = " "

RECURSIVE TrimLeft(_)
TrimLeft(s) ==
    IF s # <<>> /\ IsSpace(Head(s)) THEN TrimLeft(Tail(s)) ELSE s

RECURSIVE TrimRight(_)
TrimRight(s) ==
    IF s # <<>> /\ IsSpace(s[Len(s)])
    THEN TrimRight(SubSeq(s, 1, Len(s) - 1))
    ELSE s

TrimSpace(s) == TrimRight(TrimLeft(s))

\* canonical text of a UUID, as a client writes it in a path, query or body
UuidText(u) == <<ToString(u)>>

\* uuid.Parse: err # nil unless the text is the text of a UUID
UuidParseOk(s) == \E u \in UUIDs : s = UuidText(u)

UuidParse(s) == CHOOSE u \in UUIDs : s = UuidText(u)

(***************************************************************************)
(* Optional values: a Go pointer in a request body (nil or &v) and a BSON  *)
(* field that can hold null.                                               *)
(***************************************************************************)
Nil == <<>>
Ptr(v) == <<v>>
IsNil(p) == Len(p) = 0
Deref(p) == p[1]

BsonNull == <<>>
BsonString(s) == <<s>>

(***************************************************************************)
(* Request inputs.                                                         *)
(***************************************************************************)
\* the request c.BodyParser returned an error for
Malformed == [parsed |-> FALSE]

\* how a request's store access goes: the collection accessor fails ("db"),
\* the store operation fails ("op"), or both succeed ("none").  A failed
\* store operation leaves the collection as it was.
Failures == { "none", "db", "op" }

\* InsertMany writes its documents one after the other, in order and outside
\* any transaction: it can also return an error after it has written some of
\* them ("partial": all but the last).
BulkFailures == Failures \cup { "partial" }

\* identifier inputs: empty, blank, not a UUID, and UUID texts plain and padded
IdInputs ==
    { <<>>, <<" ">>, <<"x">> }
        \cup { UuidText(u) : u \in UUIDs \ {1} }
        \cup { <<" ">> \o UuidText(1) \o <<" ">> }

VARIABLES
    products,    \* the products collection
    warehouse,   \* the warehouse collection
    categories,  \* the categories collection
    issued,      \* the identifiers uuid.New() has returned
    pending      \* DeleteStock requests between their two store steps

vars == <<products, warehouse, categories, issued, pending>>

(***************************************************************************)
(* What a handler does with a request: the response it sends and the state *)
(* it leaves.                                                              *)
(***************************************************************************)
NoBody == <<>>

\* c.Status(status).JSON(body)
JSON(status, body) == [status |-> status, msg |-> "", body |-> body]

\* no response yet
NoResponse == [status |-> InFlight, msg |-> "", body |-> NoBody]

\* fiber.NewError(status, msg)
NewError(status, msg) == [status |-> status, msg |-> msg, body |-> NoBody]

\* the state a request finds; `resp` is the response it gets
State ==
    [resp |-> NoResponse, products |-> products, warehouse |-> warehouse,
     categories |-> categories, issued |-> issued, pending |-> pending]

\* the handler returns `r`, the state being `s`
Respond(s, r) == [s EXCEPT !.resp = r]

\* the request takes effect: the store becomes what the handler left
Serve(out) ==
    \E o \in {out} :
        /\ products' = o.products
        /\ warehouse' = o.warehouse
        /\ categories' = o.categories
        /\ issued' = o.issued
        /\ pending' = o.pending

(***************************************************************************)
(* Store operations on a collection.                                       *)
(***************************************************************************)
Matching(coll, field, u) == { i \in 1..Len(coll) : coll[i][field] = u }

\* a Find that ignores its filter
FindAll(coll, field, u) == coll

\* Find(filter) followed by cursor.All: the matching documents, in order
Find(coll, field, u) == SelectSeq(coll, LAMBDA d : d[field] = u)

\* an insert that replaces what the collection holds
InsertOneReplace(coll, doc) == <<doc>>

InsertOne(coll, doc) == Append(coll, doc)

InsertMany(coll, docs) == coll \o docs

RemoveAt(coll, i) == SubSeq(coll, 1, i - 1) \o SubSeq(coll, i + 1, Len(coll))

FirstMatch(coll, field, u) ==
    CHOOSE i \in Matching(coll, field, u) :
        \A j \in Matching(coll, field, u) : i <= j

\* DeleteOne(filter): removes the first matching document, if any
DeleteOne(coll, field, u) ==
    IF Matching(coll, field, u) = {}
    THEN coll
    ELSE RemoveAt(coll, FirstMatch(coll, field, u))

\* a DeleteOne that reports a deletion whether or not a document matched
DeleteOneCountAlways(coll, field, u) == 1

DeleteOneCount(coll, field, u) ==
    IF Matching(coll, field, u) = {} THEN 0 ELSE 1

\* a DeleteMany that stops after one document
DeleteManyFirst(coll, field, u) == DeleteOne(coll, field, u)

\* DeleteMany(filter): removes every matching document
DeleteMany(coll, field, u) == SelectSeq(coll, LAMBDA d : d[field] # u)

DeleteManyCount(coll, field, u) == Cardinality(Matching(coll, field, u))

\* an update that writes a whole new document: the fields of `updates`, the
\* identifiers, and zero values for the rest
ApplyReplace(doc, updates) ==
    [f \in DOMAIN doc |->
        IF f \in DOMAIN updates THEN updates[f]
        ELSE IF f = "ProductQty" THEN 0
        ELSE IF f \in { "ProductID", "StockID" } THEN doc[f]
        ELSE <<>>]

\* {"$set": updates} applied to a document
ApplySet(doc, updates) ==
    [f \in DOMAIN doc |-> IF f \in DOMAIN updates THEN updates[f] ELSE doc[f]]

\* a FindOneAndUpdate that inserts the fields when no document matches
FindOneAndUpdateUpsert(coll, field, u, updates) ==
    IF Matching(coll, field, u) = {}
    THEN Append(coll, (field :> u) @@ updates)
    ELSE [coll EXCEPT ![FirstMatch(coll, field, u)] =
              ApplySet(coll[FirstMatch(coll, field, u)], updates)]

\* FindOneAndUpdate(filter, {"$set": updates}): the collection afterwards
FindOneAndUpdate(coll, field, u, updates) ==
    IF Matching(coll, field, u) = {}
    THEN coll
    ELSE [coll EXCEPT ![FirstMatch(coll, field, u)] =
              ApplySet(coll[FirstMatch(coll, field, u)], updates)]

\* SetReturnDocument(options.After): the document the operation returns
ReturnDocument(coll, field, u, updates) ==
    ApplySet(coll[FirstMatch(coll, field, u)], updates)

\* the identifiers uuid.New() can still return: none it returned before
FreshUUIDs == UUIDs \ issued

(***************************************************************************)
(* Path and query identifiers: trimmed, required, parsed.                  *)
(***************************************************************************)
\* "" when the parameter is accepted, else the error message
IdParamError(name, param) ==
    IF TrimSpace(param) = <<>> THEN name \o " is required"
    ELSE IF ~UuidParseOk(TrimSpace(param)) THEN name \o " must be a valid UUID"
    ELSE ""

IdParamValue(param) == UuidParse(TrimSpace(param))

(***************************************************************************)
(* models.Products: the struct of a handler, the document it is stored as  *)
(* and the struct a stored document decodes into.                          *)
(***************************************************************************)
Products(productID, stockID, name, category, unit, qty) ==
    [ProductID |-> productID, StockID |-> stockID, ProductName |-> name,
     Category |-> category, Unit |-> unit, ProductQty |-> qty]

\* Category and Unit are Go strings: each is stored as a BSON string
EncodeProduct(p) ==
    [p EXCEPT !.Category = BsonString(p.Category), !.Unit = BsonString(p.Unit)]

\* Category and Unit are Go strings: a stored null decodes to the empty string
DecodeProduct(doc) ==
    [doc EXCEPT !.Category =
                    IF doc.Category = BsonNull THEN <<>> ELSE doc.Category[1],
                !.Unit = IF doc.Unit = BsonNull THEN <<>> ELSE doc.Unit[1]]

\* cursor.All into []models.Products
DecodeProducts(docs) == [i \in 1..Len(docs) |-> DecodeProduct(docs[i])]

(***************************************************************************)
(* DeleteProduct                                                           *)
(***************************************************************************)
DeleteProduct(s, productIDParam, fail) ==
    IF IdParamError("productId", productIDParam) # ""
    THEN Respond(s, NewError(StatusBadRequest,
                          IdParamError("productId", productIDParam)))
    ELSE IF fail = "db"
    THEN Respond(s, NewError(StatusInternalServerError, "database unavailable"))
    ELSE IF fail = "op"
    THEN Respond(s, NewError(StatusInternalServerError, "failed to delete product"))
    ELSE LET productUUID == IdParamValue(productIDParam) IN
         [Respond(s, JSON(StatusOK,
              [deleted_product |->
                   DeleteOneCount(s.products, "ProductID", productUUID)]))
          EXCEPT !.products = DeleteOne(s.products, "ProductID", productUUID)]

(***************************************************************************)
(* ListProducts                                                            *)
(***************************************************************************)
ListProducts(s, stockIDParam, fail) ==
    IF IdParamError("stockId", stockIDParam) # ""
    THEN Respond(s, NewError(StatusBadRequest,
                          IdParamError("stockId", stockIDParam)))
    ELSE IF fail = "db"
    THEN Respond(s, NewError(StatusInternalServerError, "database unavailable"))
    ELSE IF fail = "op"
    THEN Respond(s, NewError(StatusInternalServerError, "failed to fetch products"))
    ELSE Respond(s, JSON(StatusOK,
             DecodeProducts(Find(s.products, "StockID",
                                 IdParamValue(stockIDParam)))))

(***************************************************************************)
(* CreateProduct                                                           *)
(***************************************************************************)
CreateProductRequest(stockID, name, category, unit, qty) ==
    [parsed |-> TRUE, StockID |-> stockID, ProductName |-> name,
     Category |-> category, Unit |-> unit, ProductQty |-> qty]

\* the validation without the check of line 140
CreateProductErrorNoQty(req) ==
    IF TrimSpace(req.StockID) = <<>> \/ TrimSpace(req.ProductName) = <<>>
    THEN "StockID and ProductName are required"
    ELSE IF ~UuidParseOk(TrimSpace(req.StockID))
    THEN "StockID must be a valid UUID"
    ELSE ""

\* the validation of lines 132-147: "" when the request is accepted
CreateProductError(req) ==
    IF TrimSpace(req.StockID) = <<>> \/ TrimSpace(req.ProductName) = <<>>
    THEN "StockID and ProductName are required"
    ELSE IF req.ProductQty = 0 THEN "ProductQty must be provided"
    ELSE IF ~UuidParseOk(TrimSpace(req.StockID))
    THEN "StockID must be a valid UUID"
    ELSE ""

\* a CreateProduct that looks the owning stock up before it inserts
CreateProductChecked(s, req, fail, id) ==
    IF ~req.parsed
    THEN Respond(s, NewError(StatusBadRequest, "invalid JSON payload"))
    ELSE IF CreateProductError(req) # ""
    THEN Respond(s, NewError(StatusBadRequest, CreateProductError(req)))
    ELSE IF fail # "none"
    THEN Respond(s, NewError(StatusInternalServerError, "database unavailable"))
    ELSE IF Matching(s.warehouse, "StockID",
                     UuidParse(TrimSpace(req.StockID))) = {}
    THEN Respond(s, NewError(StatusNotFound, "stock not found"))
    ELSE [Respond(s, JSON(StatusCreated,
              Products(id, UuidParse(TrimSpace(req.StockID)),
                       TrimSpace(req.ProductName), TrimSpace(req.Category),
                       TrimSpace(req.Unit), req.ProductQty)))
          EXCEPT !.issued = s.issued \cup {id},
                 !.products =
                     InsertOne(s.products,
                         EncodeProduct(
                             Products(id, UuidParse(TrimSpace(req.StockID)),
                                      TrimSpace(req.ProductName),
                                      TrimSpace(req.Category),
                                      TrimSpace(req.Unit), req.ProductQty)))]

\* `id` is what uuid.New() returns at line 158
CreateProduct(s, req, fail, id) ==
    IF ~req.parsed
    THEN Respond(s, NewError(StatusBadRequest, "invalid JSON payload"))
    ELSE IF CreateProductError(req) # ""
    THEN Respond(s, NewError(StatusBadRequest, CreateProductError(req)))
    ELSE IF fail = "db"
    THEN Respond(s, NewError(StatusInternalServerError, "database unavailable"))
    ELSE LET product ==
                 Products(id, UuidParse(TrimSpace(req.StockID)),
                          TrimSpace(req.ProductName), TrimSpace(req.Category),
                          TrimSpace(req.Unit), req.ProductQty)
         IN  IF fail = "op"
             THEN [Respond(s, NewError(StatusInternalServerError,
                                    "failed to create product"))
                   EXCEPT !.issued = s.issued \cup {id}]
             ELSE [Respond(s, JSON(StatusCreated, product))
                   EXCEPT !.issued = s.issued \cup {id},
                          !.products =
                              InsertOne(s.products, EncodeProduct(product))]

(***************************************************************************)
(* UpdateProduct                                                           *)
(***************************************************************************)
UpdateProductRequest(name, category, unit, qty) ==
    [parsed |-> TRUE, ProductName |-> name, Category |-> category,
     Unit |-> unit, ProductQty |-> qty]

\* the entry a field of the body adds to `updates` (lines 203-226)
NoUpdates == [f \in {} |-> <<>>]

\* a ProductName stored as it arrived, without line 204
NameUpdateRaw(req) ==
    IF IsNil(req.ProductName) THEN NoUpdates
    ELSE "ProductName" :> Deref(req.ProductName)

NameUpdate(req) ==
    IF IsNil(req.ProductName) THEN NoUpdates
    ELSE "ProductName" :> TrimSpace(Deref(req.ProductName))

\* a Category stored as the trimmed string even when that is empty
CategoryUpdateString(req) ==
    IF IsNil(req.Category) THEN NoUpdates
    ELSE "Category" :> BsonString(TrimSpace(Deref(req.Category)))

CategoryUpdate(req) ==
    IF IsNil(req.Category) THEN NoUpdates
    ELSE IF TrimSpace(Deref(req.Category)) = <<>>
    THEN "Category" :> BsonNull
    ELSE "Category" :> BsonString(TrimSpace(Deref(req.Category)))

UnitUpdate(req) ==
    IF IsNil(req.Unit) THEN NoUpdates
    ELSE "Unit" :> BsonString(TrimSpace(Deref(req.Unit)))

\* a ProductQty that is not a pointer: absent reads as 0
QtyUpdateZero(req) ==
    IF IsNil(req.ProductQty) THEN "ProductQty" :> 0
    ELSE "ProductQty" :> Deref(req.ProductQty)

QtyUpdate(req) ==
    IF IsNil(req.ProductQty) THEN NoUpdates
    ELSE "ProductQty" :> Deref(req.ProductQty)

\* `updates` as it is at line 228
BuildUpdates(req) ==
    NameUpdate(req) @@ CategoryUpdate(req) @@ UnitUpdate(req) @@ QtyUpdate(req)

\* the early returns without the check of line 228
UpdateProductErrorNoCount(req) ==
    IF ~IsNil(req.ProductName) /\ TrimSpace(Deref(req.ProductName)) = <<>>
    THEN "ProductName cannot be empty"
    ELSE IF ~IsNil(req.ProductQty) /\ Deref(req.ProductQty) < 0
    THEN "ProductQty cannot be negative"
    ELSE ""

\* the early returns without the check of line 205
UpdateProductErrorNoName(req) ==
    IF ~IsNil(req.ProductQty) /\ Deref(req.ProductQty) < 0
    THEN "ProductQty cannot be negative"
    ELSE IF DOMAIN BuildUpdates(req) = {}
    THEN "provide at least one field to update"
    ELSE ""

\* the early returns of lines 203-230: "" when the body is accepted
UpdateProductError(req) ==
    IF ~IsNil(req.ProductName) /\ TrimSpace(Deref(req.ProductName)) = <<>>
    THEN "ProductName cannot be empty"
    ELSE IF ~IsNil(req.ProductQty) /\ Deref(req.ProductQty) < 0
    THEN "ProductQty cannot be negative"
    ELSE IF DOMAIN BuildUpdates(req) = {}
    THEN "provide at least one field to update"
    ELSE ""

\* an UpdateProduct that validates the body after it has updated the store
UpdateProductWriteFirst(s, productIDParam, req, fail) ==
    IF IdParamError("productId", productIDParam) # ""
    THEN Respond(s, NewError(StatusBadRequest,
                          IdParamError("productId", productIDParam)))
    ELSE IF ~req.parsed
    THEN Respond(s, NewError(StatusBadRequest, "invalid JSON payload"))
    ELSE LET updated == [s EXCEPT !.products =
                            FindOneAndUpdate(s.products, "ProductID",
                                             IdParamValue(productIDParam),
                                             BuildUpdates(req))]
         IN  IF UpdateProductError(req) # ""
             THEN Respond(updated,
                          NewError(StatusBadRequest, UpdateProductError(req)))
             ELSE Respond(updated, JSON(StatusOK, NoBody))

UpdateProduct(s, productIDParam, req, fail) ==
    IF IdParamError("productId", productIDParam) # ""
    THEN Respond(s, NewError(StatusBadRequest,
                          IdParamError("productId", productIDParam)))
    ELSE IF ~req.parsed
    THEN Respond(s, NewError(StatusBadRequest, "invalid JSON payload"))
    ELSE IF UpdateProductError(req) # ""
    THEN Respond(s, NewError(StatusBadRequest, UpdateProductError(req)))
    ELSE IF fail = "db"
    THEN Respond(s, NewError(StatusInternalServerError, "database unavailable"))
    ELSE IF fail = "op"
    THEN Respond(s, NewError(StatusInternalServerError, "failed to update product"))
    ELSE LET productUUID == IdParamValue(productIDParam)
             updates == BuildUpdates(req)
             updated == [s EXCEPT !.products =
                            FindOneAndUpdate(s.products, "ProductID",
                                             productUUID, updates)]
         IN  IF Matching(s.products, "ProductID", productUUID) = {}
             THEN Respond(updated, NewError(StatusNotFound, "product not found"))
             ELSE Respond(updated, JSON(StatusOK,
                      DecodeProduct(ReturnDocument(s.products, "ProductID",
                                                   productUUID, updates))))

(***************************************************************************)
(* models.Categories: Discription is stored only when it is not empty      *)
(* (bson "Discription,omitempty").                                         *)
(***************************************************************************)
Categories(categoryID, stockID, name, discription) ==
    [CategoryID |-> categoryID, StockID |-> stockID, CategoryName |-> name,
     Discription |-> discription]

BsonAbsent == <<>>

EncodeCategory(c) ==
    [c EXCEPT !.Discription =
        IF c.Discription = <<>> THEN BsonAbsent ELSE BsonString(c.Discription)]

DecodeCategory(doc) ==
    [doc EXCEPT !.Discription =
        IF doc.Discription = BsonAbsent THEN <<>> ELSE doc.Discription[1]]

\* cursor.All into []models.Categories
DecodeCategories(docs) == [i \in 1..Len(docs) |-> DecodeCategory(docs[i])]

\* the documents InsertMany is given
EncodeCategories(structs) ==
    [i \in 1..Len(structs) |-> EncodeCategory(structs[i])]

(***************************************************************************)
(* ListCategories                                                          *)
(***************************************************************************)
ListCategories(s, stockIDParam, fail) ==
    IF IdParamError("stockId", stockIDParam) # ""
    THEN Respond(s, NewError(StatusBadRequest,
                          IdParamError("stockId", stockIDParam)))
    ELSE IF fail = "db"
    THEN Respond(s, NewError(StatusInternalServerError, "database unavailable"))
    ELSE IF fail = "op"
    THEN Respond(s, NewError(StatusInternalServerError,
                          "failed to fetch categories"))
    ELSE Respond(s, JSON(StatusOK,
             DecodeCategories(Find(s.categories, "StockID",
                                   IdParamValue(stockIDParam)))))

(***************************************************************************)
(* CreateCategories                                                        *)
(***************************************************************************)
CategoryRequest(stockID, name, discription) ==
    [StockID |-> stockID, CategoryName |-> name, Discription |-> discription]

Payload(elements) == [parsed |-> TRUE, elements |-> elements]

\* the checks of one loop iteration (lines 91-102): "" when the element passes
CategoryError(cat) ==
    IF TrimSpace(cat.StockID) = <<>> \/ TrimSpace(cat.CategoryName) = <<>>
    THEN "StockID and CategoryName are required at index"
    ELSE IF ~UuidParseOk(TrimSpace(cat.StockID))
    THEN "StockID at index must be a valid UUID"
    ELSE ""

\* the indexes (from 1) of the elements that fail the loop's checks
Invalid(elements) ==
    { i \in 1..Len(elements) : CategoryError(elements[i]) # "" }

\* a loop that returns at the last invalid element instead of the first
CompletedToLast(elements) ==
    IF Invalid(elements) = {}
    THEN Len(elements)
    ELSE (CHOOSE i \in Invalid(elements) :
              \A j \in Invalid(elements) : i >= j) - 1

\* the iterations the loop completes: all of them, or those before its return
Completed(elements) ==
    IF Invalid(elements) = {}
    THEN Len(elements)
    ELSE (CHOOSE i \in Invalid(elements) :
              \A j \in Invalid(elements) : i <= j) - 1

\* a loop that generates one identifier and gives it to every record
CategoryStructsOneId(elements, ids, done) ==
    [i \in 1..done |->
        Categories(ids[1], UuidParse(TrimSpace(elements[i].StockID)),
                   TrimSpace(elements[i].CategoryName),
                   TrimSpace(elements[i].Discription))]

\* the records the loop has built after `done` iterations (lines 104-111)
CategoryStructs(elements, ids, done) ==
    [i \in 1..done |->
        Categories(ids[i], UuidParse(TrimSpace(elements[i].StockID)),
                   TrimSpace(elements[i].CategoryName),
                   TrimSpace(elements[i].Discription))]

\* `ids[i]` is what uuid.New() returns in iteration i (line 105)
CreateCategories(s, payload, fail, ids) ==
    IF ~payload.parsed
    THEN Respond(s, NewError(StatusBadRequest, "invalid JSON payload"))
    ELSE IF Len(payload.elements) = 0
    THEN Respond(s, NewError(StatusBadRequest, "at least one category is required"))
    ELSE LET elements == payload.elements
             done == Completed(elements)
             drawn == s.issued \cup { ids[i] : i \in 1..done }
             structs == CategoryStructs(elements, ids, done)
         IN  IF done < Len(elements)
             THEN [Respond(s, [status |-> StatusBadRequest,
                            msg |-> CategoryError(elements[done + 1]),
                            body |-> done])
                   EXCEPT !.issued = drawn]
             ELSE IF fail = "db"
             THEN [Respond(s, NewError(StatusInternalServerError,
                                    "database unavailable"))
                   EXCEPT !.issued = drawn]
             ELSE IF fail = "op"
             THEN [Respond(s, NewError(StatusInternalServerError,
                                    "failed to create categories"))
                   EXCEPT !.issued = drawn]
             ELSE IF fail = "partial"
             THEN [Respond(s, NewError(StatusInternalServerError,
                                    "failed to create categories"))
                   EXCEPT !.issued = drawn,
                          !.categories =
                              InsertMany(s.categories,
                                  EncodeCategories(SubSeq(structs, 1, done - 1)))]
             ELSE [Respond(s, JSON(StatusCreated, structs))
                   EXCEPT !.issued = drawn,
                          !.categories =
                              InsertMany(s.categories,
                                         EncodeCategories(structs))]

(***************************************************************************)
(* DeleteCategory                                                          *)
(***************************************************************************)
DeleteCategory(s, categoryIDParam, fail) ==
    IF IdParamError("categoryId", categoryIDParam) # ""
    THEN Respond(s, NewError(StatusBadRequest,
                          IdParamError("categoryId", categoryIDParam)))
    ELSE IF fail = "db"
    THEN Respond(s, NewError(StatusInternalServerError, "database unavailable"))
    ELSE IF fail = "op"
    THEN Respond(s, NewError(StatusInternalServerError, "failed to delete category"))
    ELSE LET categoryUUID == IdParamValue(categoryIDParam) IN
         [Respond(s, JSON(StatusOK,
              [deleted_category |->
                   DeleteOneCount(s.categories, "CategoryID", categoryUUID)]))
          EXCEPT !.categories = DeleteOne(s.categories, "CategoryID", categoryUUID)]

(***************************************************************************)
(* models.Warehouse                                                        *)
(***************************************************************************)
Warehouse(stockID, userID, name) ==
    [StockID |-> stockID, UserID |-> userID, StockName |-> name]

DecodeWarehouse(doc) == doc

\* cursor.All into []models.Warehouse
DecodeWarehouses(docs) == [i \in 1..Len(docs) |-> DecodeWarehouse(docs[i])]

(***************************************************************************)
(* ListWarehouse                                                           *)
(***************************************************************************)
ListWarehouse(s, userIDParam, fail) ==
    IF IdParamError("userId", userIDParam) # ""
    THEN Respond(s, NewError(StatusBadRequest, IdParamError("userId", userIDParam)))
    ELSE IF fail = "db"
    THEN Respond(s, NewError(StatusInternalServerError, "database unavailable"))
    ELSE IF fail = "op"
    THEN Respond(s, NewError(StatusInternalServerError, "failed to fetch warehouse"))
    ELSE Respond(s, JSON(StatusOK,
             DecodeWarehouses(Find(s.warehouse, "UserID",
                                   IdParamValue(userIDParam)))))

(***************************************************************************)
(* CreateStock                                                             *)
(***************************************************************************)
CreateStockRequest(userID, name) ==
    [parsed |-> TRUE, UserID |-> userID, StockName |-> name]

CreateStockError(req) ==
    IF TrimSpace(req.StockName) = <<>> \/ TrimSpace(req.UserID) = <<>>
    THEN "UserID and StockName are required"
    ELSE IF ~UuidParseOk(TrimSpace(req.UserID))
    THEN "UserID must be a valid UUID"
    ELSE ""

\* `id` is what uuid.New() returns at line 150
CreateStock(s, req, fail, id) ==
    IF ~req.parsed
    THEN Respond(s, NewError(StatusBadRequest, "invalid JSON payload"))
    ELSE IF CreateStockError(req) # ""
    THEN Respond(s, NewError(StatusBadRequest, CreateStockError(req)))
    ELSE IF fail = "db"
    THEN Respond(s, NewError(StatusInternalServerError, "database unavailable"))
    ELSE LET stock == Warehouse(id, UuidParse(TrimSpace(req.UserID)),
                                TrimSpace(req.StockName))
         IN  IF fail = "op"
             THEN [Respond(s, NewError(StatusInternalServerError,
                                    "failed to create stock"))
                   EXCEPT !.issued = s.issued \cup {id}]
             ELSE [Respond(s, JSON(StatusCreated, stock))
                   EXCEPT !.issued = s.issued \cup {id},
                          !.warehouse = InsertOne(s.warehouse, stock)]

(***************************************************************************)
(* DeleteStock: the handler up to its first store step (lines 32-57), and  *)
(* from its second store step on (lines 59-67).  Between the two the       *)
(* request is in `pending`, holding stockUUID and stockRes.DeletedCount.   *)
(***************************************************************************)
DeleteStock(s, stockIDParam, fail) ==
    IF IdParamError("stockId", stockIDParam) # ""
    THEN Respond(s, NewError(StatusBadRequest,
                          IdParamError("stockId", stockIDParam)))
    ELSE IF fail = "db"
    THEN Respond(s, NewError(StatusInternalServerError, "database unavailable"))
    ELSE IF fail = "op"
    THEN Respond(s, NewError(StatusInternalServerError, "failed to delete stock"))
    ELSE LET stockUUID == IdParamValue(stockIDParam) IN
         [Respond(s, NoResponse)
          EXCEPT !.warehouse = DeleteOne(s.warehouse, "StockID", stockUUID),
                 !.pending =
                     Append(s.pending,
                            [stockUUID |-> stockUUID,
                             stockRes |->
                                 DeleteOneCount(s.warehouse, "StockID", stockUUID)])]

\* a second step whose failure still removes the products
DeleteStockProductsLossy(s, i, fail) ==
    [Respond(s, IF fail = "op"
                THEN NewError(StatusInternalServerError,
                              "failed to delete related products")
                ELSE JSON(StatusOK,
                         [deleted_stock |-> s.pending[i].stockRes,
                          deleted_relatedProducts |->
                              DeleteManyCount(s.products, "StockID",
                                              s.pending[i].stockUUID)]))
     EXCEPT !.products = DeleteMany(s.products, "StockID", s.pending[i].stockUUID),
            !.pending = RemoveAt(s.pending, i)]

\* a second step that cascades to the categories of the stock as well
DeleteStockProductsCategories(s, i, fail) ==
    [Respond(s, IF fail = "op"
                THEN NewError(StatusInternalServerError,
                              "failed to delete related products")
                ELSE JSON(StatusOK,
                         [deleted_stock |-> s.pending[i].stockRes,
                          deleted_relatedProducts |->
                              DeleteManyCount(s.products, "StockID",
                                              s.pending[i].stockUUID)]))
     EXCEPT !.products =
                IF fail = "op" THEN s.products
                ELSE DeleteMany(s.products, "StockID", s.pending[i].stockUUID),
            !.categories =
                IF fail = "op" THEN s.categories
                ELSE DeleteMany(s.categories, "StockID", s.pending[i].stockUUID),
            !.pending = RemoveAt(s.pending, i)]

\* the rest of the i-th request of `pending` (lines 59-67)
DeleteStockProducts(s, i, fail) ==
    LET req == s.pending[i] IN
    IF fail = "op"
    THEN [Respond(s, NewError(StatusInternalServerError,
                              "failed to delete related products"))
          EXCEPT !.pending = RemoveAt(s.pending, i)]
    ELSE [Respond(s, JSON(StatusOK,
              [deleted_stock |-> req.stockRes,
               deleted_relatedProducts |->
                   DeleteManyCount(s.products, "StockID", req.stockUUID)]))
          EXCEPT !.products = DeleteMany(s.products, "StockID", req.stockUUID),
                 !.pending = RemoveAt(s.pending, i)]

(***************************************************************************)
(* RegisterRoutes, and the requests that reach no handler                  *)
(***************************************************************************)
\* the method and path pattern of every route RegisterRoutes registers
Routes ==
    { <<"GET", "/api/health">>,
      <<"POST", "/api/register">>,
      <<"POST", "/api/login">>,
      <<"GET", "/api/products">>,
      <<"DELETE", "/api/products/:productId">>,
      <<"PUT", "/api/products/:productId">>,
      <<"POST", "/api/products">>,
      <<"GET", "/api/categories">>,
      <<"POST", "/api/categories">>,
      <<"GET", "/api/warehouse">>,
      <<"POST", "/api/warehouse">>,
      <<"DELETE", "/api/warehouse/:stockId">>,
      <<"DELETE", "/api/categories/:categoryId">> }

Registered(method, pattern) == <<method, pattern>> \in Routes

StatusMethodNotAllowed == 405

\* what the router answers a request that no route matches: not found, or
\* method not allowed when the path is registered under another method
UnmatchedStatuses == { StatusNotFound, StatusMethodNotAllowed }

\* a request no route matches runs no handler
NoRoute(s, status) == Respond(s, NewError(status, "no route"))

\* the body handleRenameStock sends
RenameStockRequest(name, userID) == [StockName |-> name, UserID |-> userID]

\* PUT /api/warehouse/:stockId: RegisterRoutes has no such route, so the
\* parameter and the body are read by no handler
PutWarehouse(s, stockIDParam, req, status) == NoRoute(s, status)

(***************************************************************************)
(* StockPage: handleRenameStock                                            *)
(***************************************************************************)
\* a response.ok that is true for every status
ResponseOkAlways(status) == TRUE

\* response.ok
ResponseOk(status) == status \in 200..299

\* the messages the page shows: submitMessage, submitError and modalError
Page(submitMessage, submitError, modalError) ==
    [submitMessage |-> submitMessage, submitError |-> submitError,
     modalError |-> modalError]

\* the page after the handler, and the state the backend is left in
Shown(out, page) == [out |-> out, page |-> page]

handleRenameStock(s, page, modalStock, modalValue, status) ==
    LET trimmed == TrimSpace(modalValue)
        out == PutWarehouse(s, UuidText(Deref(modalStock).StockID),
                   RenameStockRequest(trimmed,
                                      UuidText(Deref(modalStock).UserID)),
                   status)
    IN  IF IsNil(modalStock) THEN Shown(s, page)
        ELSE IF trimmed = <<>>
        THEN Shown(s, [page EXCEPT
                          !.modalError = Ptr("Warehouse name is required.")])
        ELSE IF ~ResponseOk(out.resp.status)
        THEN Shown(out, Page(Nil,
                             Ptr(IF out.resp.msg # "" THEN out.resp.msg
                                 ELSE "Failed to update warehouse"),
                             Nil))
        ELSE Shown(out, Page(Ptr("Warehouse updated."), Nil, Nil))

\* the messages the other handlers of the page leave
Pages ==
    { Page(Nil, Nil, Nil),
      Page(Ptr("Warehouse deleted."), Nil, Nil),
      Page(Nil, Ptr("Could not delete warehouse."), Nil) }

\* the names typed in the rename dialog
RenameValues == { <<>>, <<" ">>, <<"b">>, <<" ", "b", " ">> }

(***************************************************************************)
(* The requests clients send.                                              *)
(***************************************************************************)
\* path and query parameters: empty, blank, not a UUID, UUIDs plain and padded
IdParams == IdInputs

\* every element of `inputs` with the store working, and `one` with each failure
Traffic(inputs, one) ==
    (inputs \X {"none"}) \cup ({one} \X Failures)

\* CreateProduct bodies: the accepted ones, and one for each way to be rejected
CreateProductBodies ==
    { CreateProductRequest(s, <<" ", "a", " ">>, <<" ", "a">>, <<"a", " ">>, q) :
        s \in { UuidText(1), <<" ">> \o UuidText(2) }, q \in { -1, 1 } }
    \cup { CreateProductRequest(<<" ">>, <<"a">>, <<>>, <<>>, 1),
           CreateProductRequest(UuidText(1), <<" ">>, <<>>, <<>>, 1),
           CreateProductRequest(UuidText(1), <<"a">>, <<>>, <<>>, 0),
           CreateProductRequest(<<"x">>, <<"a">>, <<>>, <<>>, 1),
           CreateProductRequest(<<"x">>, <<"a">>, <<>>, <<>>, 0),
           Malformed }

\* UpdateProduct bodies: each field absent, blank, or holding a value
UpdateProductBodies ==
    { UpdateProductRequest(n, c, u, q) :
        n \in { Nil, Ptr(<<" ">>), Ptr(<<" ", "b", " ">>) },
        c \in { Nil, Ptr(<<" ">>), Ptr(<<" ", "a", " ">>) },
        u \in { Nil, Ptr(<<" ">>), Ptr(<<"a", " ">>) },
        q \in { Nil, Ptr(-1), Ptr(0) } }
    \cup { Malformed }

\* the bodies clients send: one for each way to be rejected, and bodies that
\* set a field to a value products are created with, or Category to blank
UpdateProductTraffic ==
    { UpdateProductRequest(Nil, Nil, Nil, Nil),
      UpdateProductRequest(Ptr(<<" ">>), Ptr(<<" ">>), Nil, Nil),
      UpdateProductRequest(Nil, Nil, Nil, Ptr(-1)),
      UpdateProductRequest(Nil, Ptr(<<" ">>), Nil, Nil),
      UpdateProductRequest(Nil, Ptr(<<" ", "a", " ">>), Nil, Nil),
      UpdateProductRequest(Ptr(<<" ", "a">>), Nil, Ptr(<<"a", " ">>), Nil),
      UpdateProductRequest(Nil, Nil, Nil, Ptr(1)),
      Malformed }

\* every body for the products there can be, and every parameter for one body
UpdateProductPairs ==
    ({ p \in IdParams : IdParamError("productId", p) = "" }
         \X UpdateProductTraffic)
    \cup (IdParams \X { UpdateProductRequest(Nil, Nil, Nil, Ptr(1)) })

\* CreateStock bodies
CreateStockBodies ==
    { CreateStockRequest(u, <<" ", "a", " ">>) :
        u \in { UuidText(1), <<" ">> \o UuidText(2), <<"x">>, <<" ">> } }
    \cup { CreateStockRequest(UuidText(1), <<" ">>), Malformed }

\* the elements of a CreateCategories payload: two that pass, three that do not
CategoryElements ==
    { CategoryRequest(UuidText(1), <<" ", "a">>, <<>>),
      CategoryRequest(<<" ">> \o UuidText(2), <<"a">>, <<" ", "d", " ">>),
      CategoryRequest(UuidText(1), <<" ">>, <<>>),
      CategoryRequest(<<>>, <<"a">>, <<>>),
      CategoryRequest(<<"x">>, <<"a">>, <<>>) }

RECURSIVE SeqsUpTo(_, _)
SeqsUpTo(S, n) ==
    IF n = 0 THEN { <<>> }
    ELSE SeqsUpTo(S, n - 1)
             \cup { Append(q, x) : q \in SeqsUpTo(S, n - 1), x \in S }

CategoryPayloads ==
    { Payload(e) : e \in SeqsUpTo(CategoryElements, MaxBulk) } \cup { Malformed }

\* what uuid.New() returns in the n calls of one request
FreshSeqs(n) ==
    { q \in SeqsUpTo(FreshUUIDs, n) :
        /\ Len(q) = n
        /\ \A i, j \in 1..n : i # j => q[i] # q[j] }

\* the calls of uuid.New() a CreateCategories request makes
Draws(payload) ==
    IF payload.parsed THEN Completed(payload.elements) ELSE 0

Init ==
    /\ products = <<>>
    /\ warehouse = <<>>
    /\ categories = <<>>
    /\ issued = {}
    /\ pending = <<>>

DeleteProductRequest ==
    \E t \in Traffic(IdParams, UuidText(1)) : Serve(DeleteProduct(State, t[1], t[2]))

ListProductsRequest ==
    \E t \in Traffic(IdParams, UuidText(1)) : Serve(ListProducts(State, t[1], t[2]))

CreateProductRequests ==
    \E t \in Traffic(CreateProductBodies,
                     CreateProductRequest(UuidText(2), <<"a">>, <<>>, <<>>, 1)),
       id \in FreshUUIDs :
        Serve(CreateProduct(State, t[1], t[2], id))

UpdateProductRequests ==
    \E t \in Traffic(UpdateProductPairs,
                     <<UuidText(2), UpdateProductRequest(Nil, Nil, Nil, Ptr(1))>>) :
        Serve(UpdateProduct(State, t[1][1], t[1][2], t[2]))

ListCategoriesRequest ==
    \E t \in Traffic(IdParams, UuidText(1)) : Serve(ListCategories(State, t[1], t[2]))

CreateCategoriesRequest ==
    \E t \in Traffic(CategoryPayloads,
                     Payload(<<CategoryRequest(UuidText(2), <<"a">>, <<>>)>>))
               \cup ({ r \in CategoryPayloads : Draws(r) > 1 } \X { "partial" }) :
        \E ids \in FreshSeqs(Draws(t[1])) :
            Serve(CreateCategories(State, t[1], t[2], ids))

DeleteCategoryRequest ==
    \E t \in Traffic(IdParams, UuidText(1)) : Serve(DeleteCategory(State, t[1], t[2]))

ListWarehouseRequest ==
    \E t \in Traffic(IdParams, UuidText(1)) : Serve(ListWarehouse(State, t[1], t[2]))

CreateStockRequests ==
    \E t \in Traffic(CreateStockBodies,
                     CreateStockRequest(UuidText(2), <<"a">>)),
       id \in FreshUUIDs :
        Serve(CreateStock(State, t[1], t[2], id))

DeleteStockRequest ==
    \E t \in Traffic(IdParams, UuidText(1)) :
        /\ Len(pending) < MaxPending
        /\ Serve(DeleteStock(State, t[1], t[2]))

DeleteStockProductsStep ==
    \E i \in 1..Len(pending), f \in {"none", "op"} :
        Serve(DeleteStockProducts(State, i, f))

PutWarehouseRequest ==
    /\ ~Registered("PUT", "/api/warehouse/:stockId")
    /\ \E p \in IdParams, v \in RenameValues, st \in UnmatchedStatuses :
          Serve(PutWarehouse(State, p, RenameStockRequest(v, UuidText(1)), st))

Next ==
    \/ DeleteProductRequest
    \/ ListProductsRequest
    \/ CreateProductRequests
    \/ UpdateProductRequests
    \/ ListCategoriesRequest
    \/ CreateCategoriesRequest
    \/ DeleteCategoryRequest
    \/ ListWarehouseRequest
    \/ CreateStockRequests
    \/ DeleteStockRequest
    \/ DeleteStockProductsStep
    \/ PutWarehouseRequest

Spec == Init /\ [][Next]_vars

(***************************************************************************)
(* Properties.  A request is quantified over every parameter, body and     *)
(* store behaviour of the sets above, in every reachable state.            *)
(***************************************************************************)
ValidIdParams == { p \in IdParams : IdParamError("id", p) = "" }

SameStore(s, t) ==
    /\ s.products = t.products
    /\ s.warehouse = t.warehouse
    /\ s.categories = t.categories
    /\ s.pending = t.pending

\* the response is a client error only if the store is as the request found it
Rejected(out) == out.resp.status = StatusBadRequest => SameStore(out, State)

\* C1: a request any handler answers with a client error (400) issued no
\* store operation: products, warehouse and categories are as they were
\* before the request, and no DeleteStock is left between its two steps.
C1_ClientErrorLeavesStore ==
    /\ \A p \in IdParams, f \in Failures :
        /\ Rejected(ListProducts(State, p, f))
        /\ Rejected(DeleteProduct(State, p, f))
        /\ Rejected(ListCategories(State, p, f))
        /\ Rejected(ListWarehouse(State, p, f))
        /\ Rejected(DeleteStock(State, p, f))
    /\ \A p \in IdParams, r \in UpdateProductBodies :
        Rejected(UpdateProduct(State, p, r, "none"))
    /\ \A id \in FreshUUIDs :
        /\ \A r \in CreateProductBodies :
            Rejected(CreateProduct(State, r, "none", id))
        /\ \A r \in CreateStockBodies :
            Rejected(CreateStock(State, r, "none", id))
    /\ \A r \in CategoryPayloads :
        \A ids \in FreshSeqs(Draws(r)) :
            Rejected(CreateCategories(State, r, "none", ids))

\* C1 witness: a product and a category are stored, and a request that names
\* the product and sets its Category is answered 400 for its blank name.
C1_Witness ==
    /\ categories # <<>>
    /\ \E i \in 1..Len(products) :
        UpdateProduct(State, UuidText(products[i].ProductID),
                      UpdateProductRequest(Ptr(<<" ">>), Ptr(<<" ">>), Nil, Nil),
                      "none").resp.status = StatusBadRequest

Range(q) == { q[i] : i \in 1..Len(q) }

\* the documents of `coll` whose `field` is `u`
OwnedBy(coll, field, u) == { d \in Range(coll) : d[field] = u }

\* the response is a success listing the records `expected`, each once:
\* `n` of them are stored
ListsExactly(resp, expected, n) ==
    /\ resp.status = StatusOK
    /\ Range(resp.body) = expected
    /\ Len(resp.body) = n

\* C2: after any sequence of requests, a list request the store serves
\* returns exactly the persisted records whose owning identifier is the query
\* parameter: none missing, none of another owner, each once, and an empty
\* sequence with status 200 when none match.
C2_ListReturnsOwned ==
    \A u \in UUIDs :
      \A p \in { UuidText(u), <<" ">> \o UuidText(u) \o <<" ">> } :
        /\ ListsExactly(ListProducts(State, p, "none").resp,
               { DecodeProduct(d) : d \in OwnedBy(products, "StockID", u) },
               Cardinality({ i \in 1..Len(products) : products[i].StockID = u }))
        /\ ListsExactly(ListCategories(State, p, "none").resp,
               { DecodeCategory(d) : d \in OwnedBy(categories, "StockID", u) },
               Cardinality({ i \in 1..Len(categories) :
                               categories[i].StockID = u }))
        /\ ListsExactly(ListWarehouse(State, p, "none").resp,
               OwnedBy(warehouse, "UserID", u),
               Cardinality({ i \in 1..Len(warehouse) : warehouse[i].UserID = u }))

\* C2 witness: two products of different stocks are stored after an update
\* (a null Category), so a list must leave one out, and no category is
\* stored, so ListCategories returns the empty sequence.
C2_Witness ==
    /\ Len(products) = 2
    /\ products[1].StockID # products[2].StockID
    /\ \E i \in 1..2 : products[i].Category = BsonNull
    /\ ListCategories(State, UuidText(1), "none").resp.body = <<>>
    /\ Len(ListProducts(State, UuidText(products[1].StockID), "none").resp.body) = 1

\* an element is invalid: StockID or CategoryName blank, or StockID no UUID
Blank(str) == \A i \in 1..Len(str) : str[i] = " "

NamesUuid(str) ==
    \E u \in UUIDs, i, j \in 0..Len(str) :
        /\ str = [k \in 1..i |-> " "] \o UuidText(u) \o [k \in 1..j |-> " "]

InvalidElement(cat) ==
    Blank(cat.StockID) \/ Blank(cat.CategoryName) \/ ~NamesUuid(cat.StockID)

\* C3: CreateCategories with a non-empty array holding an invalid element is
\* answered 400 with the (0-based) index of the first invalid element, and
\* persists no category, not even for the valid elements before it.
C3_BulkRejectsWhole ==
    \A r \in CategoryPayloads \ {Malformed}, f \in {"none", "op"} :
        \A ids \in FreshSeqs(Draws(r)) :
            \A i \in 1..Len(r.elements) :
                ( /\ InvalidElement(r.elements[i])
                  /\ \A j \in 1..(i - 1) : ~InvalidElement(r.elements[j]) )
                => LET out == CreateCategories(State, r, f, ids) IN
                   /\ out.resp.status = StatusBadRequest
                   /\ out.resp.body = i - 1
                   /\ out.categories = categories

\* C3 witness: a category is stored and a fresh identifier is left, so a
\* payload of a valid element followed by an invalid one is rejected at index 1.
C3_Witness ==
    /\ categories # <<>>
    /\ \E id \in FreshUUIDs :
        LET out == CreateCategories(State,
                       Payload(<<CategoryRequest(UuidText(1), <<"a">>, <<>>),
                                 CategoryRequest(<<"x">>, <<"a">>, <<>>)>>),
                       "none", <<id>>)
        IN  /\ out.resp.status = StatusBadRequest
            /\ out.resp.body = 1
            /\ id \in out.issued

\* the padded and the plain text of identifier u
Texts(u) == { UuidText(u), <<" ">> \o UuidText(u) \o <<" ">> }

Owned(coll, u) == { i \in 1..Len(coll) : coll[i].StockID = u }

\* DeleteStock for parameter p with no other request between its two store
\* steps, the second step behaving as `fail`
Cascade(p, fail) ==
    DeleteStockProducts(DeleteStock(State, p, "none"), Len(pending) + 1, fail)

\* C4: DeleteStock(S) with a well-formed S, both store steps succeeding and
\* no request in between, leaves no warehouse and no product of stock S,
\* leaves every other warehouse and product as it was, and answers 200 with
\* deleted_stock = 1 if the warehouse existed, else 0, and
\* deleted_relatedProducts = the number of products that had StockID S.
C4_DeleteStockCascades ==
    \A u \in UUIDs :
      \A p \in Texts(u) :
        LET out == Cascade(p, "none") IN
        /\ out.resp.status = StatusOK
        /\ Owned(out.warehouse, u) = {}
        /\ Owned(out.products, u) = {}
        /\ out.products = SelectSeq(products, LAMBDA d : d.StockID # u)
        /\ out.warehouse = SelectSeq(warehouse, LAMBDA d : d.StockID # u)
        /\ out.categories = categories
        /\ out.pending = pending
        /\ out.resp.body =
               [deleted_stock |-> IF Owned(warehouse, u) = {} THEN 0 ELSE 1,
                deleted_relatedProducts |-> Cardinality(Owned(products, u))]

\* C4 witness: a warehouse and a product of it are stored, and deleting the
\* warehouse reports one stock and one related product deleted.
C4_Witness ==
    \E u \in UUIDs :
        /\ Owned(warehouse, u) # {}
        /\ Owned(products, u) # {}
        /\ Cascade(UuidText(u), "none").resp.body =
               [deleted_stock |-> 1, deleted_relatedProducts |-> 1]

ValidCreate(r, u) ==
    /\ r.parsed
    /\ NamesUuid(r.StockID)
    /\ r.StockID \in { [k \in 1..i |-> " "] \o UuidText(u) : i \in 0..1 }
    /\ ~Blank(r.ProductName)
    /\ r.ProductQty # 0

\* the product with identifier `id` is gone after the step
Removed(id) ==
    /\ \E i \in 1..Len(products) : products[i].ProductID = id
    /\ \A j \in 1..Len(products') : products'[j].ProductID # id

\* the step is the store operation of DeleteProduct on identifier `id`
ByDeleteProduct(id) ==
    products' = DeleteOne(products, "ProductID", id)

\* the step is the second store operation of a DeleteStock on stock u
ByDeleteStock(u) ==
    \E k \in 1..Len(pending) :
        /\ pending[k].stockUUID = u
        /\ pending' = RemoveAt(pending, k)
        /\ products' = DeleteMany(products, "StockID", u)

\* C6: CreateProduct never looks the owning warehouse up: with a valid body
\* and a working store it answers 201 and stores the product in every state,
\* also between the two steps of a DeleteStock of that stock and when no such
\* warehouse exists; and a stored product goes away only by a DeleteProduct
\* on its identifier or by the product step of a DeleteStock on its stock.
C6_OrphanProducts ==
    /\ [](\A u \in UUIDs, id \in FreshUUIDs :
            \A r \in { b \in CreateProductBodies : ValidCreate(b, u) } :
              LET out == CreateProduct(State, r, "none", id) IN
              /\ out.resp.status = StatusCreated
              /\ Len(out.products) = Len(products) + 1
              /\ SubSeq(out.products, 1, Len(products)) = products
              /\ out.products[Len(out.products)].StockID = u
              /\ out.products[Len(out.products)].ProductID = id
              /\ out.warehouse = warehouse)
    /\ [][\A i \in 1..Len(products) :
            Removed(products[i].ProductID)
            => \/ ByDeleteProduct(products[i].ProductID)
               \/ ByDeleteStock(products[i].StockID)]_vars

\* C6 witness: a DeleteStock of stock S has deleted the warehouse record and
\* not yet the products; a CreateProduct for S is answered 201, a ListProducts
\* for S then returns the product while no warehouse S exists, and the
\* DeleteStock is then answered 200.
C6_Witness ==
    /\ Len(pending) = 1
    /\ pending[1].stockRes = 1
    /\ Owned(warehouse, pending[1].stockUUID) = {}
    /\ \E id \in FreshUUIDs :
        LET S == pending[1].stockUUID
            created == CreateProduct(State,
                           CreateProductRequest(UuidText(S), <<"a">>, <<>>, <<>>, 1),
                           "none", id)
        IN  /\ created.resp.status = StatusCreated
            /\ Owned(created.warehouse, S) = {}
            /\ Len(ListProducts(created, UuidText(S), "none").resp.body) = 1
            /\ DeleteStockProducts(created, 1, "none").resp.status = StatusOK

\* an UpdateProduct body that parses and passes the handler's validation
ValidUpdate(r) ==
    /\ r.parsed
    /\ \E f \in { "ProductName", "Category", "Unit", "ProductQty" } : r[f] # <<>>
    /\ r.ProductName # <<>> => ~Blank(r.ProductName[1])
    /\ r.ProductQty # <<>> => r.ProductQty[1] >= 0

\* the well-formed parameters that name no stored product
Unmatched ==
    { p \in ValidIdParams :
        \A u \in UUIDs :
            p \in Texts(u) => \A i \in 1..Len(products) : products[i].ProductID # u }

\* C7 as stated: UpdateProduct with a well-formed productId that matches no
\* product is always answered 404 and leaves the products unchanged.
C7_AlwaysNotFound ==
    \A p \in Unmatched, r \in UpdateProductBodies, f \in Failures :
        LET out == UpdateProduct(State, p, r, f) IN
        /\ out.resp.status = StatusNotFound
        /\ out.products = products

\* C7, amended: UpdateProduct with a well-formed productId that matches no
\* product never creates a record: the store is unchanged whatever the body
\* and the store do; it is answered 404 when the body passes validation and
\* the store call completes, 400 when the body does not pass validation, and
\* 500 only when the store fails.
C7_NotFoundNoUpsert ==
    \A p \in Unmatched, r \in UpdateProductBodies, f \in Failures :
        LET out == UpdateProduct(State, p, r, f) IN
        /\ SameStore(out, State)
        /\ (ValidUpdate(r) /\ f = "none") => out.resp.status = StatusNotFound
        /\ ~ValidUpdate(r) => out.resp.status = StatusBadRequest
        /\ out.resp.status = StatusInternalServerError
               <=> (ValidUpdate(r) /\ f # "none")

\* C7 witness: a product is stored and an update of Category addressed to
\* another, well-formed identifier is answered 404.
C7_Witness ==
    /\ products # <<>>
    /\ \E p \in Unmatched :
        UpdateProduct(State, p,
                      UpdateProductRequest(Nil, Ptr(<<" ">>), Nil, Nil),
                      "none").resp.status = StatusNotFound

\* C8: UpdateProduct with a body in which no field is present is answered
\* 400 for every well-formed identifier, stored or not, whatever the store
\* does, and the store is left unchanged.
C8_EmptyBodyRejected ==
    \A p \in ValidIdParams, f \in Failures :
        LET out == UpdateProduct(State, p,
                                 UpdateProductRequest(Nil, Nil, Nil, Nil), f)
        IN  /\ out.resp.status = StatusBadRequest
            /\ out.resp.msg = "provide at least one field to update"
            /\ SameStore(out, State)

\* C8 witness: one product is stored, so the empty body is rejected both for
\* its identifier and for an identifier that names nothing.
C8_Witness ==
    /\ Len(products) = 1
    /\ Unmatched # {}
    /\ \A p \in ValidIdParams :
        UpdateProduct(State, p, UpdateProductRequest(Nil, Nil, Nil, Nil),
                      "none").resp.status = StatusBadRequest

\* the fields of a product an update can set
Settable == { "ProductName", "Category", "Unit", "ProductQty" }

\* C9: a successful UpdateProduct changes only the fields present in the body
\* of the one product productId names: absent fields keep their values,
\* every other product, the warehouse and the categories are unchanged, and
\* the response is the record as stored after the update; no UpdateProduct,
\* successful or not, changes the ProductID or StockID of any product.
C9_UpdateFrame ==
    /\ \A i \in 1..Len(products) :
         \A p \in Texts(products[i].ProductID) :
           \A r \in { b \in UpdateProductBodies : ValidUpdate(b) } :
             LET out == UpdateProduct(State, p, r, "none") IN
             /\ out.resp.status = StatusOK
             /\ Len(out.products) = Len(products)
             /\ \A j \in 1..Len(products) :
                    j # i => out.products[j] = products[j]
             /\ \A f \in Settable :
                    r[f] = <<>> => out.products[i][f] = products[i][f]
             /\ \A f \in DOMAIN products[i] \ Settable :
                    out.products[i][f] = products[i][f]
             /\ DOMAIN out.products[i] = DOMAIN products[i]
             /\ out.warehouse = warehouse
             /\ out.categories = categories
             /\ out.resp.body = DecodeProduct(out.products[i])
    /\ \A p \in IdParams, r \in UpdateProductBodies :
         LET out == UpdateProduct(State, p, r, "none") IN
         /\ Len(out.products) = Len(products)
         /\ \A j \in 1..Len(products) :
              /\ out.products[j].ProductID = products[j].ProductID
              /\ out.products[j].StockID = products[j].StockID

\* C9 witness: two products are stored, the second with every field differing
\* from the zero value, and an update of its name alone succeeds and changes
\* the name.
C9_Witness ==
    /\ Len(products) = 2
    /\ products[2].Category # BsonNull
    /\ products[2].Unit \notin { BsonNull, BsonString(<<>>) }
    /\ products[2].ProductQty # 0
    /\ LET out == UpdateProduct(State, UuidText(products[2].ProductID),
                      UpdateProductRequest(Ptr(<<" ", "b", " ">>), Nil, Nil, Nil),
                      "none")
       IN  /\ out.resp.status = StatusOK
           /\ out.products[2].ProductName # products[2].ProductName

\* `t` is `v` without its leading and trailing blanks
Trimmed(t, v) ==
    /\ t # <<>>
    /\ t[1] # " "
    /\ t[Len(t)] # " "
    /\ \E i, j \in 0..Len(v) :
        v = [k \in 1..i |-> " "] \o t \o [k \in 1..j |-> " "]

\* C10: UpdateProduct on a stored product, with a body that passes validation
\* and a working store: a Category that is present and blank is answered 200
\* and stored as null, neither as the blank string nor as the value it had;
\* a Category that is present and not blank is stored trimmed.
C10_BlankCategoryNull ==
    \A i \in 1..Len(products) :
      \A p \in Texts(products[i].ProductID) :
        \A r \in { b \in UpdateProductBodies :
                     ValidUpdate(b) /\ b.Category # <<>> } :
          LET out == UpdateProduct(State, p, r, "none") IN
          /\ out.resp.status = StatusOK
          /\ Blank(r.Category[1]) =>
                 /\ out.products[i].Category = BsonNull
                 /\ out.products[i].Category # BsonString(r.Category[1])
                 /\ out.products[i].Category # BsonString(<<>>)
          /\ ~Blank(r.Category[1]) =>
                 /\ out.products[i].Category # BsonNull
                 /\ Trimmed(out.products[i].Category[1], r.Category[1])

\* C10 witness: a stored product has a null Category, which only an update
\* with a blank Category leaves, and another update stores "a" for " a ".
C10_Witness ==
    \E i \in 1..Len(products) :
        /\ products[i].Category = BsonNull
        /\ UpdateProduct(State, UuidText(products[i].ProductID),
               UpdateProductRequest(Nil, Ptr(<<" ", "a", " ">>), Nil, Nil),
               "none").products[i].Category = BsonString(<<"a">>)

\* the UpdateProduct bodies that pass validation with Unit present and blank
BlankUnitBodies ==
    { b \in UpdateProductBodies :
        ValidUpdate(b) /\ b.Unit # <<>> /\ Blank(b.Unit[1]) }

\* C11: UpdateProduct on a stored product, with a body that passes validation
\* and a working store: a Unit that is present and blank is stored as null,
\* the same way as Category.
C11_BlankUnitNull ==
    \A i \in 1..Len(products) :
      \A p \in Texts(products[i].ProductID) :
        \A r \in BlankUnitBodies :
          LET out == UpdateProduct(State, p, r, "none") IN
          /\ out.resp.status = StatusOK
          /\ out.products[i].Unit = BsonNull

\* the UpdateProduct bodies with a blank ProductName or a negative ProductQty
BadFieldBodies ==
    { b \in UpdateProductBodies \ {Malformed} :
        \/ b.ProductName # <<>> /\ Blank(b.ProductName[1])
        \/ b.ProductQty # <<>> /\ b.ProductQty[1] < 0 }

\* C12: UpdateProduct with a ProductName that is present and blank, or a
\* ProductQty that is present and negative, is answered 400 and applies no
\* field of the body, whatever the other fields, the identifier and the store
\* are; a ProductQty of 0 in a body that passes validation is stored.
C12_BadFieldRejectsAll ==
    /\ \A p \in ValidIdParams, r \in BadFieldBodies, f \in Failures :
         LET out == UpdateProduct(State, p, r, f) IN
         /\ out.resp.status = StatusBadRequest
         /\ SameStore(out, State)
    /\ \A i \in 1..Len(products) :
         \A r \in { b \in UpdateProductBodies :
                      ValidUpdate(b) /\ b.ProductQty = <<0>> } :
           LET out == UpdateProduct(State, UuidText(products[i].ProductID),
                                    r, "none")
           IN  /\ out.resp.status = StatusOK
               /\ out.products[i].ProductQty = 0

\* C12 witness: a stored product has a Category and a nonzero quantity; a
\* body that blanks the Category and carries a blank name is answered 400,
\* and a body that sets the quantity to 0 is answered 200.
C12_Witness ==
    \E i \in 1..Len(products) :
        /\ products[i].Category # BsonNull
        /\ products[i].ProductQty # 0
        /\ UpdateProduct(State, UuidText(products[i].ProductID),
               UpdateProductRequest(Ptr(<<" ">>), Ptr(<<" ">>), Nil, Nil),
               "none").resp.status = StatusBadRequest
        /\ UpdateProduct(State, UuidText(products[i].ProductID),
               UpdateProductRequest(Nil, Nil, Nil, Ptr(0)),
               "none").resp.status = StatusOK

\* DeleteStock for parameter p on state s, both store steps succeeding with
\* no request in between
CascadeFrom(s, p) ==
    DeleteStockProducts(DeleteStock(s, p, "none"), Len(s.pending) + 1, "none")

HasProduct(s, u) == \E i \in 1..Len(s.products) : s.products[i].ProductID = u

\* C13: DeleteProduct or DeleteStock with a well-formed identifier that
\* matches nothing (no product with that ProductID; no warehouse and no
\* product with that StockID) is answered 200 with zero deleted counts and
\* leaves the store unchanged; DeleteProduct removes one record and reports 1
\* when the product is stored, so the same delete repeated reports 0 and
\* removes nothing, and so does a repeated DeleteStock.
C13_DeleteIdempotent ==
    \A u \in UUIDs :
      \A p \in Texts(u) :
        LET once == DeleteProduct(State, p, "none")
            twice == DeleteProduct(once, p, "none")
            stock == CascadeFrom(State, p)
            again == CascadeFrom(stock, p)
        IN  /\ once.resp.status = StatusOK
            /\ once.resp.body =
                   [deleted_product |-> IF HasProduct(State, u) THEN 1 ELSE 0]
            /\ Len(once.products) = Len(products) - once.resp.body.deleted_product
            /\ ~HasProduct(once, u)
            /\ ~HasProduct(State, u) => SameStore(once, State)
            /\ twice.resp.status = StatusOK
            /\ twice.resp.body = [deleted_product |-> 0]
            /\ SameStore(twice, once)
            /\ (Owned(warehouse, u) = {} /\ Owned(products, u) = {}) =>
                   /\ stock.resp.status = StatusOK
                   /\ stock.resp.body =
                          [deleted_stock |-> 0, deleted_relatedProducts |-> 0]
                   /\ SameStore(stock, State)
            /\ again.resp.status = StatusOK
            /\ again.resp.body =
                   [deleted_stock |-> 0, deleted_relatedProducts |-> 0]
            /\ SameStore(again, stock)

\* C13 witness: a product is stored and deleting it reports 1, and another
\* identifier names no product, no warehouse and no product's stock.
C13_Witness ==
    /\ \E i \in 1..Len(products) :
        DeleteProduct(State, UuidText(products[i].ProductID), "none").resp.body
            = [deleted_product |-> 1]
    /\ \E u \in UUIDs :
        /\ ~HasProduct(State, u)
        /\ Owned(warehouse, u) = {}
        /\ Owned(products, u) = {}

\* the documents of `coll` have pairwise different values of `field`
UniqueIn(coll, field) ==
    \A i, j \in 1..Len(coll) : i # j => coll[i][field] # coll[j][field]

\* C14: after any sequence of requests no two records of one collection share
\* their primary identifier (ProductID, StockID of a warehouse, CategoryID),
\* and every such identifier is one uuid.New() returned, used for one record.
C14_UniqueIdentifiers ==
    /\ UniqueIn(products, "ProductID")
    /\ UniqueIn(warehouse, "StockID")
    /\ UniqueIn(categories, "CategoryID")
    /\ \A i \in 1..Len(products) :
         /\ products[i].ProductID \in issued
         /\ \A j \in 1..Len(warehouse) :
                warehouse[j].StockID # products[i].ProductID
         /\ \A j \in 1..Len(categories) :
                categories[j].CategoryID # products[i].ProductID
    /\ \A i \in 1..Len(warehouse) :
         /\ warehouse[i].StockID \in issued
         /\ \A j \in 1..Len(categories) :
                categories[j].CategoryID # warehouse[i].StockID
    /\ \A i \in 1..Len(categories) : categories[i].CategoryID \in issued

\* C14 witness: two categories of different stocks are stored, as one bulk
\* request of two elements creates them.
C14_Witness ==
    /\ Len(categories) = 2
    /\ categories[1].StockID # categories[2].StockID
    /\ categories[1].CategoryID # categories[2].CategoryID

\* CreateProduct bodies that are valid but for a ProductQty that is omitted
\* or 0 (an omitted ProductQty parses as the int 0)
ZeroQtyBodies ==
    { CreateProductRequest(st, <<" ", "a">>, c, c, 0) :
        st \in UNION { Texts(u) : u \in UUIDs }, c \in { <<>>, <<"a", " ">> } }

\* C15: CreateProduct with an otherwise valid body whose ProductQty is
\* omitted or 0 is answered 400 "ProductQty must be provided", whatever the
\* store does, and persists nothing.
C15_ZeroQtyRejected ==
    \A r \in ZeroQtyBodies, f \in Failures, id \in UUIDs :
        LET out == CreateProduct(State, r, f, id) IN
        /\ out.resp.status = StatusBadRequest
        /\ out.resp.msg = "ProductQty must be provided"
        /\ SameStore(out, State)
        /\ out.issued = issued

\* C15 witness: a product is stored, an identifier is still to be generated,
\* and a request for the same stock with ProductQty 0 is rejected.
C15_Witness ==
    /\ Len(products) = 1
    /\ \E id \in FreshUUIDs :
        CreateProduct(State,
            CreateProductRequest(UuidText(products[1].StockID), <<"a">>, <<>>,
                                 <<>>, 0),
            "none", id).resp.msg = "ProductQty must be provided"

\* `t` is `v` trimmed, which is empty when `v` is blank
TrimmedOrEmpty(t, v) == IF Blank(v) THEN t = <<>> ELSE Trimmed(t, v)

\* a CreateStock body that passes validation, for user u
ValidStock(r, u) ==
    /\ r.parsed
    /\ NamesUuid(r.UserID)
    /\ r.UserID \in { [k \in 1..i |-> " "] \o UuidText(u) : i \in 0..1 }
    /\ ~Blank(r.StockName)

\* CreateProduct bodies with Category and Unit empty, blank or padded
DescribedBodies ==
    { CreateProductRequest(st, <<" ", "a", " ">>, c, un, q) :
        st \in UNION { Texts(u) : u \in UUIDs },
        c \in { <<>>, <<" ">>, <<" ", "a">> },
        un \in { <<>>, <<"a", " ">> },
        q \in { -1, 1 } }

\* C16: a valid CreateProduct or CreateStock whose insert succeeds adds one
\* record to its collection after the existing ones, which are unchanged,
\* changes no other collection, and answers 201 with the record persisted:
\* the generated identifier, the parsed owning identifier, the trimmed
\* strings of the request and, for a product, its quantity.
C16_CreateAddsOne ==
    \A u \in UUIDs, id \in FreshUUIDs :
      /\ \A r \in { b \in CreateProductBodies \cup DescribedBodies :
                     b.parsed /\ TrimmedOrEmpty(UuidText(u), b.StockID)
                     /\ ~Blank(b.ProductName) /\ b.ProductQty # 0 } :
           LET out == CreateProduct(State, r, "none", id)
               rec == out.resp.body
               doc == out.products[Len(out.products)]
           IN  /\ out.resp.status = StatusCreated
               /\ Len(out.products) = Len(products) + 1
               /\ SubSeq(out.products, 1, Len(products)) = products
               /\ out.warehouse = warehouse
               /\ out.categories = categories
               /\ rec.ProductID = id
               /\ rec.StockID = u
               /\ Trimmed(rec.ProductName, r.ProductName)
               /\ TrimmedOrEmpty(rec.Category, r.Category)
               /\ TrimmedOrEmpty(rec.Unit, r.Unit)
               /\ rec.ProductQty = r.ProductQty
               /\ doc = [rec EXCEPT !.Category = BsonString(rec.Category),
                                    !.Unit = BsonString(rec.Unit)]
      /\ \A r \in { b \in CreateStockBodies : ValidStock(b, u) } :
           LET out == CreateStock(State, r, "none", id)
               rec == out.resp.body
           IN  /\ out.resp.status = StatusCreated
               /\ out.warehouse = Append(warehouse, rec)
               /\ out.products = products
               /\ out.categories = categories
               /\ rec.StockID = id
               /\ rec.UserID = u
               /\ Trimmed(rec.StockName, r.StockName)
               /\ DOMAIN rec = { "StockID", "UserID", "StockName" }

\* C16 witness: a product is stored and an identifier is left, so a second
\* product and a warehouse can each be created after it.
C16_Witness ==
    /\ Len(products) = 1
    /\ \E id \in FreshUUIDs :
        /\ Len(CreateProduct(State,
                   CreateProductRequest(<<" ">> \o UuidText(2), <<" ", "a", " ">>,
                                        <<" ", "a">>, <<"a", " ">>, 1),
                   "none", id).products) = 2
        /\ CreateStock(State, CreateStockRequest(UuidText(1), <<" ", "a", " ">>),
                       "none", id).resp.status = StatusCreated

\* the payloads whose elements all pass validation
ValidPayloads ==
    { r \in CategoryPayloads \ {Malformed} :
        /\ r.elements # <<>>
        /\ \A i \in 1..Len(r.elements) : ~InvalidElement(r.elements[i]) }

\* C17: CreateCategories with N elements that all validate either persists
\* all N records and answers 201 with them, or answers 500 and persists none
\* of them, however the store behaves.
C17_BulkAllOrNothing ==
    \A r \in ValidPayloads, f \in BulkFailures :
      \A ids \in FreshSeqs(Len(r.elements)) :
        LET out == CreateCategories(State, r, f, ids) IN
        \/ /\ out.resp.status = StatusCreated
           /\ Len(out.resp.body) = Len(r.elements)
           /\ Len(out.categories) = Len(categories) + Len(r.elements)
           /\ SubSeq(out.categories, 1, Len(categories)) = categories
           /\ \A i \in 1..Len(r.elements) :
                DecodeCategory(out.categories[Len(categories) + i])
                    = out.resp.body[i]
        \/ /\ out.resp.status = StatusInternalServerError
           /\ out.categories = categories

\* C18: DeleteStock never changes the categories collection, in either
\* store step and whether the step succeeds or fails; after DeleteStock(S)
\* has completed, ListCategories for S returns every category of stock S that
\* was stored before, each once.
C18_CategoriesSurviveDeleteStock ==
    /\ \A p \in IdParams, f \in Failures :
         DeleteStock(State, p, f).categories = categories
    /\ \A i \in 1..Len(pending), f \in { "none", "op" } :
         DeleteStockProducts(State, i, f).categories = categories
    /\ \A u \in UUIDs :
         \A p \in Texts(u) :
           LET out == CascadeFrom(State, p) IN
           /\ out.categories = categories
           /\ ListsExactly(ListCategories(out, p, "none").resp,
                  { DecodeCategory(d) : d \in OwnedBy(categories, "StockID", u) },
                  Cardinality(Owned(categories, u)))

\* C18 witness: a warehouse and a category of it are stored; deleting the
\* warehouse reports one stock deleted and the category is still listed.
C18_Witness ==
    \E u \in UUIDs :
        /\ Owned(warehouse, u) # {}
        /\ Owned(categories, u) # {}
        /\ CascadeFrom(State, UuidText(u)).resp.body.deleted_stock = 1
        /\ Len(ListCategories(CascadeFrom(State, UuidText(u)), UuidText(u),
                              "none").resp.body) = 1

\* bodies of two requests that meet on one product: each field set alone
\* to two values, and two fields set together
ConcurrentBodies ==
    { UpdateProductRequest(Ptr(n), Nil, Nil, Nil) :
        n \in { <<" ", "b">>, <<"c", " ">> } }
    \cup { UpdateProductRequest(Nil, Ptr(c), Nil, Nil) :
             c \in { <<" ">>, <<" ", "b">> } }
    \cup { UpdateProductRequest(Nil, Nil, Ptr(un), Nil) :
             un \in { <<" ">>, <<"b">> } }
    \cup { UpdateProductRequest(Nil, Nil, Nil, Ptr(q)) : q \in { 0, 2 } }
    \cup { UpdateProductRequest(Ptr(<<"d">>), Nil, Nil, Ptr(3)),
           UpdateProductRequest(Nil, Ptr(<<"d">>), Ptr(<<"d">>), Nil) }

\* the fields a body sets
Sets(r) == { f \in Settable : r[f] # <<>> }

\* C19: two UpdateProduct requests on one stored product, each with a valid
\* body and a working store, are each one atomic store operation, so they
\* take effect in one order or the other.  In both orders both are answered
\* 200; a field only one of them sets ends with that request's value, a
\* field both set ends with the value of the one that ran last, a field
\* neither sets keeps its value, and no other product changes.
C19_NoLostUpdate ==
    \A i \in 1..Len(products) :
      \A a, b \in ConcurrentBodies :
        LET p == UuidText(products[i].ProductID)
            onlyA == UpdateProduct(State, p, a, "none")
            onlyB == UpdateProduct(State, p, b, "none")
            ab == UpdateProduct(onlyA, p, b, "none")
            ba == UpdateProduct(onlyB, p, a, "none")
        IN  /\ onlyA.resp.status = StatusOK
            /\ ab.resp.status = StatusOK
            /\ ba.resp.status = StatusOK
            /\ \A f \in Sets(a) \ Sets(b) :
                 /\ ab.products[i][f] = onlyA.products[i][f]
                 /\ ba.products[i][f] = onlyA.products[i][f]
            /\ \A f \in Sets(b) \ Sets(a) :
                 /\ ab.products[i][f] = onlyB.products[i][f]
                 /\ ba.products[i][f] = onlyB.products[i][f]
            /\ \A f \in Sets(a) \cap Sets(b) :
                 /\ ab.products[i][f] = onlyB.products[i][f]
                 /\ ba.products[i][f] = onlyA.products[i][f]
            /\ \A f \in DOMAIN products[i] \ (Sets(a) \cup Sets(b)) :
                 /\ ab.products[i][f] = products[i][f]
                 /\ ba.products[i][f] = products[i][f]
            /\ Sets(a) \cap Sets(b) = {} => ab.products = ba.products
            /\ \A j \in 1..Len(products) :
                 j # i => ab.products[j] = products[j] /\ ba.products[j] = products[j]

\* C19 witness: a product is stored; one request renames it and another sets
\* its quantity, and in both orders it ends with the new name and quantity.
C19_Witness ==
    /\ Len(products) = 2
    /\ LET p == UuidText(products[1].ProductID)
           a == UpdateProductRequest(Ptr(<<" ", "b">>), Nil, Nil, Nil)
           b == UpdateProductRequest(Nil, Nil, Nil, Ptr(2))
           ab == UpdateProduct(UpdateProduct(State, p, a, "none"), p, b, "none")
           ba == UpdateProduct(UpdateProduct(State, p, b, "none"), p, a, "none")
       IN  /\ ab.products[1].ProductName = <<"b">>
           /\ ab.products[1].ProductQty = 2
           /\ ab.products[1].ProductName # products[1].ProductName
           /\ ab.products[1].ProductQty # products[1].ProductQty
           /\ ba.products = ab.products

\* C20: after any sequence of requests every stored product has a
\* ProductQty of 0 or more.
C20_QtyNeverNegative ==
    \A i \in 1..Len(products) : products[i].ProductQty >= 0

\* a name that is not empty and neither starts nor ends with a blank
WellNamed(name) ==
    /\ name # <<>>
    /\ ~IsSpace(name[1])
    /\ ~IsSpace(name[Len(name)])

AllWellNamed(coll) == \A i \in 1..Len(coll) : WellNamed(coll[i].ProductName)

\* C21: every stored product has a ProductName that is not empty and has no
\* leading or trailing blank, and every CreateProduct and UpdateProduct
\* request, whatever its body and whether or not the store works, leaves
\* it so: an accepted name is stored trimmed, and a name that is empty
\* after trimming is answered 400.
C21_NameTrimmedNonEmpty ==
    /\ AllWellNamed(products)
    /\ \A r \in CreateProductBodies, f \in Failures, id \in FreshUUIDs :
        LET out == CreateProduct(State, r, f, id) IN
        /\ AllWellNamed(out.products)
        /\ (r.parsed /\ Blank(r.ProductName)) =>
               out.resp.status = StatusBadRequest
        /\ out.resp.status = StatusCreated =>
               Trimmed(out.products[Len(out.products)].ProductName,
                       r.ProductName)
    /\ \A i \in 1..Len(products) :
        \A p \in Texts(products[i].ProductID) :
          \A r \in UpdateProductBodies, f \in Failures :
            LET out == UpdateProduct(State, p, r, f) IN
            /\ AllWellNamed(out.products)
            /\ (r.parsed /\ r.ProductName # Nil /\ Blank(Deref(r.ProductName))) =>
                   out.resp.status = StatusBadRequest
            /\ (out.resp.status = StatusOK /\ r.ProductName # Nil) =>
                   Trimmed(out.products[i].ProductName, Deref(r.ProductName))

\* C21 witness: a product created from the name " a " is stored as "a", and
\* an update naming it " b " stores "b" while one naming it " " is refused.
C21_Witness ==
    \E i \in 1..Len(products) :
        /\ products[i].ProductName = <<"a">>
        /\ UpdateProduct(State, UuidText(products[i].ProductID),
               UpdateProductRequest(Ptr(<<" ", "b", " ">>), Nil, Nil, Nil),
               "none").products[i].ProductName = <<"b">>
        /\ UpdateProduct(State, UuidText(products[i].ProductID),
               UpdateProductRequest(Ptr(<<" ">>), Nil, Nil, Nil),
               "none").resp.status = StatusBadRequest

\* the warehouse collection after a step holds the records it held, each
\* with the fields it had, but for one record added at the end or one removed
Kept(before, after) ==
    \/ after = before
    \/ /\ Len(after) = Len(before) + 1
       /\ SubSeq(after, 1, Len(before)) = before
       /\ \A i \in 1..Len(before) : before[i].StockID # after[Len(after)].StockID
    \/ \E i \in 1..Len(before) : after = RemoveAt(before, i)

\* C22: a stored warehouse record keeps its StockID, UserID and StockName
\* until it is deleted: every step leaves each record that survives it as it
\* was, and so does every CreateProduct and UpdateProduct request whatever
\* its body. PUT /api/warehouse/:stockId is no registered route: the request
\* is answered with a status that is not 2xx and leaves the store as it was,
\* and the page that sent it shows an error and never "Warehouse updated.".
C22_WarehouseImmutable ==
    /\ [](/\ ~Registered("PUT", "/api/warehouse/:stockId")
          /\ \A p \in IdParams, v \in RenameValues, st \in UnmatchedStatuses :
              LET out == PutWarehouse(State, p,
                             RenameStockRequest(v, UuidText(1)), st) IN
              /\ SameStore(out, State)
              /\ out.resp.status \notin 200..299
          /\ \A stock \in { Nil } \cup { Ptr(w) : w \in Range(warehouse) } :
              \A v \in RenameValues, st \in UnmatchedStatuses, page \in Pages :
                LET after == handleRenameStock(State, page, stock, v, st) IN
                /\ SameStore(after.out, State)
                /\ after.page.submitMessage # Ptr("Warehouse updated.")
                /\ (stock # Nil /\ ~Blank(v)) =>
                       /\ after.page.submitMessage = Nil
                       /\ after.page.submitError # Nil
                /\ (stock # Nil /\ Blank(v)) =>
                       /\ after.page.modalError # Nil
                       /\ after.page.submitMessage = page.submitMessage
          /\ \A r \in CreateProductBodies, f \in Failures, id \in FreshUUIDs :
              CreateProduct(State, r, f, id).warehouse = warehouse
          /\ \A p \in ValidIdParams, r \in UpdateProductBodies, f \in Failures :
              UpdateProduct(State, p, r, f).warehouse = warehouse)
    /\ [][Kept(warehouse, warehouse')]_vars

\* C22 witness: a warehouse record stored as "a" has had a product created
\* for it, the rename to " b " is answered 405, the page shows the error
\* and the record is still named "a".
C22_Witness ==
    \E i \in 1..Len(warehouse) :
        LET after == handleRenameStock(State, Page(Nil, Nil, Nil),
                         Ptr(warehouse[i]), <<" ", "b", " ">>,
                         StatusMethodNotAllowed) IN
        /\ warehouse[i].StockName = <<"a">>
        /\ Owned(products, warehouse[i].StockID) # {}
        /\ after.out.resp.status = StatusMethodNotAllowed
        /\ after.page.submitError = Ptr("no route")
        /\ after.out.warehouse[i].StockName = <<"a">>

=============================================================================
